---- MODULE Spec2Model ----
(***************************************************************************)
(* Model of src/main.py: a channel-gating Telegram bot.                    *)
(*                                                                         *)
(* Every inbound update is handled in its own asyncio task, so handlers    *)
(* interleave at their await points.  A task of the model is one handler   *)
(* invocation; its pc names the await it is suspended at.  Code between    *)
(* two awaits runs atomically (one cooperative event loop).  The FSM       *)
(* storage is MemoryStorage, whose coroutines never suspend, so routing,   *)
(* the admin test and state.set_state / state.clear belong to the step     *)
(* that starts the handler.  asyncio.sleep(0.03) of the delivery loop has  *)
(* no effect on the state and is folded into the copy_message step.        *)
(* upsert_user runs one statement in a session of its own; SQLite makes    *)
(* the write visible to other sessions at the commit and serialises the    *)
(* writers, so `await upsert_user(...)` is one step, taken at the commit.  *)
(***************************************************************************)
EXTENDS Integers, Sequences, FiniteSets, Bags, TLC

\* ---------- bounds of the model ----------
MaxTasks == 2      \* handler invocations in flight at once
MaxClock == 3      \* inbound updates received in one run
MaxAdminClock == 4 \* updates received in a run of the administrator alone

\* ---------- constants of the program ----------
ADMIN_ID == 671179325
PRIVATE_CHAT_LINK == "https://t.me/+BsK2e556HeBlNDky"

\* the identities that send updates: the administrator and one other user
OtherUser == ADMIN_ID + 1
Users == {ADMIN_ID, OtherUser}

\* Python's None for an absent first_name / username
None == "<None>"

\* from_user.first_name / from_user.username as the platform reports them
Profiles ==
    { [first_name |-> "Ann", username |-> "ann"],
      [first_name |-> None,  username |-> None] }

\* bot.db outlives the process: the rows a run may find at startup
StoredRow(u) ==
    [user_id |-> u, first_name |-> "Zoe", username |-> "", joined_at |-> 0]
InitStores ==
    { {}, { StoredRow(OtherUser) }, { StoredRow(ADMIN_ID), StoredRow(OtherUser) } }

\* ---------- inbound updates ----------
Messages == {"/start", "/delivery", "/help", "photo"}
Callbacks == {"get_access", "check_sub"}
Events ==
    { [type |-> "message", data |-> m] : m \in Messages } \cup
    { [type |-> "callback_query", data |-> c] : c \in Callbacks }

\* ---------- FSM ----------
waiting_for_content == "Delivery:waiting_for_content"
NoState == "None"

\* ---------- platform outcomes ----------
\* aiogram.exceptions: TelegramBadRequest is a subclass of TelegramAPIError
Exceptions == {"TelegramBadRequest", "TelegramAPIError"}
Catches(cls, exc) ==
    \/ exc = cls
    \/ cls = "TelegramAPIError" /\ exc = "TelegramBadRequest"

\* what a send, edit, reply, answer or copy call does: it returns or raises
SendResults == {"ok", "TelegramAPIError"}

\* the value of getattr(member, "status", "") or the exception raised
Statuses == {"member", "administrator", "creator", "left", "kicked", "restricted", ""}
QueryOutcomes ==
    { [raised |-> "none", status |-> s] : s \in Statuses } \cup
    { [raised |-> e, status |-> ""] : e \in Exceptions }

\* ---------- pure functions ----------
\* `x or ""`
OrEmpty(x) == IF x = None \/ x = "" THEN "" ELSE x

\* a checker that grants on a query error
is_subscribed_failopen(outcome) ==
    IF outcome.raised = "none"
    THEN outcome.status \in {"member", "administrator", "creator"}
    ELSE TRUE

\* a checker that counts a restricted user as subscribed
is_subscribed_restricted(outcome) ==
    /\ outcome.raised = "none"
    /\ outcome.status \in {"member", "administrator", "creator", "restricted"}

is_subscribed(outcome) ==
    IF outcome.raised = "none"
    THEN outcome.status \in {"member", "administrator", "creator"}
    ELSE IF Catches("TelegramBadRequest", outcome.raised) THEN FALSE
    ELSE IF Catches("TelegramAPIError", outcome.raised) THEN FALSE
    ELSE FALSE

\* INSERT OR REPLACE: a conflicting row is rewritten whole
upsert_user_replace(rows, user_id, first_name, username, joined_at) ==
    { r \in rows : r.user_id # user_id } \cup
    { [user_id |-> user_id,
       first_name |-> OrEmpty(first_name),
       username |-> OrEmpty(username),
       joined_at |-> joined_at] }

\* a plain INSERT, with no ON CONFLICT clause
upsert_user_insert(rows, user_id, first_name, username, joined_at) ==
    rows \cup { [user_id |-> user_id,
                 first_name |-> OrEmpty(first_name),
                 username |-> OrEmpty(username),
                 joined_at |-> joined_at] }

\* INSERT ... ON CONFLICT (user_id) DO UPDATE SET first_name, username
upsert_user(rows, user_id, first_name, username, joined_at) ==
    IF \E r \in rows : r.user_id = user_id
    THEN { IF r.user_id = user_id
           THEN [r EXCEPT !.first_name = OrEmpty(first_name),
                          !.username = OrEmpty(username)]
           ELSE r : r \in rows }
    ELSE rows \cup { [user_id |-> user_id,
                      first_name |-> OrEmpty(first_name),
                      username |-> OrEmpty(username),
                      joined_at |-> joined_at] }

RECURSIVE Perms(_)
Perms(S) ==
    IF S = {} THEN { <<>> }
    ELSE UNION { { <<x>> \o p : p \in Perms(S \ {x}) } : x \in S }

\* a query that leaves the administrator's own row out
get_all_user_ids_not_self(rows) ==
    { [k \in 1..Len(p) |-> p[k].user_id] :
         p \in Perms({ r \in rows : r.user_id # ADMIN_ID }) }

\* SELECT user_id FROM users: one id per row, in an order SQL leaves open
get_all_user_ids(rows) ==
    { [k \in 1..Len(p) |-> p[k].user_id] : p \in Perms(rows) }

\* the handlers register_handlers registers
Handlers ==
    {"on_start", "on_get_access", "on_check_sub", "cmd_delivery_start",
     "handle_delivery_content"}

\* a registration of the content handler with no state filter
Route_no_state_filter(ev, state) ==
    IF ev.type = "message"
    THEN IF ev.data = "/start" THEN "on_start"
         ELSE IF ev.data = "/delivery" THEN "cmd_delivery_start"
         ELSE "handle_delivery_content"
    ELSE IF ev.data = "get_access" THEN "on_get_access"
         ELSE IF ev.data = "check_sub" THEN "on_check_sub"
         ELSE "unhandled"

\* a registration with the state handler ahead of the command handlers
Route_state_first(ev, state) ==
    IF ev.type = "message"
    THEN IF state = waiting_for_content THEN "handle_delivery_content"
         ELSE IF ev.data = "/start" THEN "on_start"
         ELSE IF ev.data = "/delivery" THEN "cmd_delivery_start"
         ELSE "unhandled"
    ELSE IF ev.data = "get_access" THEN "on_get_access"
         ELSE IF ev.data = "check_sub" THEN "on_check_sub"
         ELSE "unhandled"

\* register_handlers: the first registered handler whose filter matches
Route(ev, state) ==
    IF ev.type = "message"
    THEN IF ev.data = "/start" THEN "on_start"
         ELSE IF ev.data = "/delivery" THEN "cmd_delivery_start"
         ELSE IF state = waiting_for_content THEN "handle_delivery_content"
         ELSE "unhandled"
    ELSE IF ev.data = "get_access" THEN "on_get_access"
         ELSE IF ev.data = "check_sub" THEN "on_check_sub"
         ELSE "unhandled"

VARIABLES
    store,    \* rows of table users
    fsm,      \* FSM state of each identity (MemoryStorage)
    tasks,    \* bag of the handler invocations in flight
    now,      \* number of updates received so far; also the clock
    exit      \* how the last step ended a handler invocation, if it ended one

vars == <<store, fsm, tasks, now, exit>>

Task(h, pc, u) ==
    [h |-> h, pc |-> pc, user |-> u, payload |-> "",
     user_ids |-> <<>>, i |-> 0, sent |-> 0, failed |-> 0,
     attempted |-> <<>>,    \* history: the copies attempted, with their results
     is_member |-> FALSE]   \* history: the platform reported a subscribed status

NoCall ==
    [api |-> "none", chat |-> 0, text |-> "", sent |-> 0, failed |-> 0,
     payload |-> ""]
NoExit == "none"

Init ==
    /\ store \in InitStores
    /\ fsm = [u \in Users |-> NoState]
    /\ tasks = EmptyBag
    /\ now = 0
    /\ exit = NoExit

\* ---------- bookkeeping shared by the steps ----------
Running == BagToSet(tasks)
At(k, h, pc) == k.h = h /\ k.pc = pc
Without(k) == tasks (-) SetToBag({k})
Started(k) == tasks (+) SetToBag({k})
Becomes(k, task) == Without(k) (+) SetToBag({task})

Call(api, chat, text) ==
    [NoCall EXCEPT !.api = api, !.chat = chat, !.text = text]

\* the platform call invocation k makes in its next step
PlatformCall(k) ==
    IF At(k, "on_start", "answer")
        THEN Call("answer", k.user, "greeting")
    ELSE IF At(k, "on_get_access", "edit_text")
        THEN Call("edit_text", k.user, "instructions")
    ELSE IF At(k, "on_get_access", "answer")
        THEN Call("callback_answer", k.user, "")
    ELSE IF At(k, "on_check_sub", "get_chat_member")
        THEN Call("get_chat_member", k.user, "")
    ELSE IF At(k, "on_check_sub", "edit_text")
        THEN Call("edit_text", k.user, PRIVATE_CHAT_LINK)
    ELSE IF At(k, "on_check_sub", "answer")
        THEN Call("callback_answer", k.user, "alert")
    ELSE IF At(k, "cmd_delivery_start", "reply_denied")
        THEN Call("reply", k.user, "denied")
    ELSE IF At(k, "cmd_delivery_start", "reply_mode")
        THEN Call("reply", k.user, "mode")
    ELSE IF At(k, "handle_delivery_content", "copy_message")
        THEN [Call("copy_message", k.user_ids[k.i], "")
                 EXCEPT !.payload = k.payload]
    ELSE IF At(k, "handle_delivery_content", "reply_empty")
        THEN Call("reply", k.user, "empty")
    ELSE IF At(k, "handle_delivery_content", "reply_done")
        THEN [Call("reply", k.user, "summary")
                 EXCEPT !.sent = k.sent, !.failed = k.failed]
    ELSE NoCall

\* the handler returned; the handler ended with an exception that the
\* dispatcher receives
Returned == "return"
Raised == "raise"

\* a platform call that no try block surrounds: the handler goes on to
\* next_pc when the call returns and ends with the exception otherwise
Uncaught(k, result, next_pc) ==
    IF result = "ok"
    THEN IF next_pc = "return"
         THEN /\ tasks' = Without(k)
              /\ exit' = Returned
         ELSE /\ tasks' = Becomes(k, [k EXCEPT !.pc = next_pc])
              /\ exit' = NoExit
    ELSE /\ tasks' = Without(k)
         /\ exit' = Raised

\* a dispatcher that awaits each handler before it takes the next update
Room_one_at_a_time == tasks = EmptyBag /\ now < MaxClock

\* the dispatcher starts a task for the update if it has room for one
Room == BagCardinality(tasks) < MaxTasks /\ now < MaxClock

\* ---------- receiving an update: routing and the handler's first code ----------
\* on_start up to the await of upsert_user
Receive_on_start(u, ev) ==
    /\ Room
    /\ Route(ev, fsm[u]) = "on_start"
    /\ now' = now + 1
    /\ tasks' = Started(Task("on_start", "upsert_user", u))
    /\ exit' = NoExit
    /\ UNCHANGED <<store, fsm>>

\* on_get_access up to the await of upsert_user
Receive_on_get_access(u, ev) ==
    /\ Room
    /\ Route(ev, fsm[u]) = "on_get_access"
    /\ now' = now + 1
    /\ tasks' = Started(Task("on_get_access", "upsert_user", u))
    /\ exit' = NoExit
    /\ UNCHANGED <<store, fsm>>

\* on_check_sub up to the await of bot.get_chat_member
Receive_on_check_sub(u, ev) ==
    /\ Room
    /\ Route(ev, fsm[u]) = "on_check_sub"
    /\ now' = now + 1
    /\ tasks' = Started(Task("on_check_sub", "get_chat_member", u))
    /\ exit' = NoExit
    /\ UNCHANGED <<store, fsm>>

\* state.set_state(Delivery.waiting_for_content) and state.clear()
set_state(f, u) == [f EXCEPT ![u] = waiting_for_content]
\* a handler that does not clear the state when it starts
state_clear_missing(f, u) == f
state_clear(f, u) == [f EXCEPT ![u] = NoState]

\* a handler that lets every identity through
NotAdmin_unchecked(u) == FALSE

\* the test `message.from_user.id != ADMIN_ID`
NotAdmin(u) == u # ADMIN_ID

\* cmd_delivery_start up to the await of message.reply
Start_cmd_delivery_start(u, ev) ==
    /\ Route(ev, fsm[u]) = "cmd_delivery_start"
    /\ now' = now + 1
    /\ IF NotAdmin(u)
       THEN /\ tasks' = Started(Task("cmd_delivery_start", "reply_denied", u))
            /\ fsm' = fsm
       ELSE /\ fsm' = set_state(fsm, u)
            /\ tasks' = Started(Task("cmd_delivery_start", "reply_mode", u))
    /\ exit' = NoExit
    /\ UNCHANGED store

Receive_cmd_delivery_start(u, ev) ==
    Room /\ Start_cmd_delivery_start(u, ev)

\* handle_delivery_content up to the await of get_all_user_ids
Start_handle_delivery_content(u, ev) ==
    /\ Route(ev, fsm[u]) = "handle_delivery_content"
    /\ now' = now + 1
    /\ IF NotAdmin(u)
       THEN /\ UNCHANGED <<tasks, fsm>>
            /\ exit' = Returned
       ELSE /\ fsm' = state_clear(fsm, u)
            /\ tasks' = Started(
                   [Task("handle_delivery_content", "get_all_user_ids", u)
                       EXCEPT !.payload = ev.data])
            /\ exit' = NoExit
    /\ UNCHANGED store

Receive_handle_delivery_content(u, ev) ==
    Room /\ Start_handle_delivery_content(u, ev)

\* an update no registered handler matches is dropped
Receive_unhandled(u, ev) ==
    /\ now < MaxClock
    /\ Route(ev, fsm[u]) = "unhandled"
    /\ now' = now + 1
    /\ exit' = NoExit
    /\ UNCHANGED <<store, fsm, tasks>>

\* ---------- await upsert_user(...) ----------
\* handlers that go from upsert_user straight to the callback's answer
AfterUpsert_noedit(h) == "answer"

\* the await that follows upsert_user in each handler
AfterUpsert(h) ==
    IF h = "on_start" THEN "answer" ELSE "edit_text"

\* p: first_name and username of the update's from_user, which nothing
\* reads before this call; joined_at is the reading of the clock
Upsert(k, p) ==
    /\ k.pc = "upsert_user"
    /\ store' = upsert_user(store, k.user, p.first_name, p.username, now)
    /\ tasks' = Becomes(k, [k EXCEPT !.pc = AfterUpsert(k.h)])
    /\ exit' = NoExit
    /\ UNCHANGED <<fsm, now>>

\* ---------- on_start ----------
Answer_on_start(k, r) ==
    /\ At(k, "on_start", "answer")
    /\ Uncaught(k, r, "return")
    /\ UNCHANGED <<store, fsm, now>>

\* ---------- on_get_access ----------
EditText_on_get_access(k, r) ==
    /\ At(k, "on_get_access", "edit_text")
    /\ Uncaught(k, r, "answer")
    /\ UNCHANGED <<store, fsm, now>>

Answer_on_get_access(k, r) ==
    /\ At(k, "on_get_access", "answer")
    /\ Uncaught(k, r, "return")
    /\ UNCHANGED <<store, fsm, now>>

\* ---------- on_check_sub ----------
\* a handler that records the user whatever the checker returned
CheckSubBranch_record(subscribed) == "upsert_user"

\* the branch of on_check_sub taken on what is_subscribed returns
CheckSubBranch(subscribed) ==
    IF subscribed THEN "upsert_user" ELSE "answer"

\* what the platform said, whatever the checker makes of it
Reported(o) ==
    o.raised = "none" /\ o.status \in {"member", "administrator", "creator"}

\* bot.get_chat_member returns or raises inside is_subscribed
GetChatMember(k, o) ==
    /\ At(k, "on_check_sub", "get_chat_member")
    /\ tasks' = Becomes(k, [k EXCEPT !.pc = CheckSubBranch(is_subscribed(o)),
                                      !.is_member = Reported(o)])
    /\ exit' = NoExit
    /\ UNCHANGED <<store, fsm, now>>

EditText_on_check_sub(k, r) ==
    /\ At(k, "on_check_sub", "edit_text")
    /\ Uncaught(k, r, "return")
    /\ UNCHANGED <<store, fsm, now>>

Answer_on_check_sub(k, r) ==
    /\ At(k, "on_check_sub", "answer")
    /\ Uncaught(k, r, "return")
    /\ UNCHANGED <<store, fsm, now>>

\* ---------- cmd_delivery_start ----------
Reply_cmd_delivery_start(k, r) ==
    /\ k.h = "cmd_delivery_start"
    /\ Uncaught(k, r, "return")
    /\ UNCHANGED <<store, fsm, now>>

\* ---------- handle_delivery_content ----------
\* a handler without the early return for the empty list
AfterSelect_noguard(ids) ==
    IF ids = <<>> THEN "reply_done" ELSE "copy_message"

\* `if not user_ids`
AfterSelect(ids) ==
    IF ids = <<>> THEN "reply_empty" ELSE "copy_message"

\* user_ids = await get_all_user_ids()
Select(k, ids) ==
    /\ At(k, "handle_delivery_content", "get_all_user_ids")
    /\ ids \in get_all_user_ids(store)
    /\ tasks' = Becomes(k, [k EXCEPT !.user_ids = ids, !.i = 1,
                                        !.pc = AfterSelect(ids)])
    /\ exit' = NoExit
    /\ UNCHANGED <<store, fsm, now>>

\* a loop that tries a recipient again after a failure
NextIndex_retry(i, r) == IF r = "ok" THEN i + 1 ELSE i

\* `for uid in user_ids`: the loop moves on whether the copy raised or not
NextIndex(i, r) == i + 1

\* a loop that counts every attempt as sent
Counted_always_sent(task, r) ==
    [task EXCEPT !.sent = @ + 1]

\* `sent += 1` after the call returns, `failed += 1` in the except block
Counted(task, r) ==
    [task EXCEPT !.sent = IF r = "ok" THEN @ + 1 ELSE @,
                 !.failed = IF r = "ok" THEN @ ELSE @ + 1]

\* a loop with no try block around bot.copy_message
CopyMessage_uncaught(k, r) ==
    /\ At(k, "handle_delivery_content", "copy_message")
    /\ LET uid == PlatformCall(k).chat
           j == NextIndex(k.i, r)
       IN IF r = "ok"
          THEN /\ tasks' = Becomes(k,
                     [Counted(k, r) EXCEPT
                         !.i = j,
                         !.attempted = Append(@, [uid |-> uid, result |-> r]),
                         !.pc = IF j > Len(k.user_ids)
                                THEN "reply_done" ELSE "copy_message"])
               /\ exit' = NoExit
          ELSE /\ tasks' = Without(k)
               /\ exit' = Raised
    /\ UNCHANGED <<store, fsm, now>>

\* one iteration of the loop: the try block around bot.copy_message
CopyMessage(k, r) ==
    /\ At(k, "handle_delivery_content", "copy_message")
    /\ LET uid == PlatformCall(k).chat
           j == NextIndex(k.i, r)
       IN IF r = "ok" \/ Catches("TelegramAPIError", r)
          THEN /\ tasks' = Becomes(k,
                     [Counted(k, r) EXCEPT
                         !.i = j,
                         !.attempted = Append(@, [uid |-> uid, result |-> r]),
                         !.pc = IF j > Len(k.user_ids)
                                THEN "reply_done" ELSE "copy_message"])
               /\ exit' = NoExit
          ELSE /\ tasks' = Without(k)
               /\ exit' = Raised
    /\ UNCHANGED <<store, fsm, now>>

\* `return await message.reply(...)` of the empty list
ReplyEmpty(k, r) ==
    /\ At(k, "handle_delivery_content", "reply_empty")
    /\ Uncaught(k, r, "return")
    /\ UNCHANGED <<store, fsm, now>>

\* the final message.reply with the two counters
ReplyDone(k, r) ==
    /\ At(k, "handle_delivery_content", "reply_done")
    /\ Uncaught(k, r, "return")
    /\ UNCHANGED <<store, fsm, now>>

\* ---------- the event loop ----------
Next ==
    \/ \E u \in Users, ev \in Events : Receive_on_start(u, ev)
    \/ \E u \in Users, ev \in Events : Receive_on_get_access(u, ev)
    \/ \E u \in Users, ev \in Events : Receive_on_check_sub(u, ev)
    \/ \E u \in Users, ev \in Events : Receive_cmd_delivery_start(u, ev)
    \/ \E u \in Users, ev \in Events : Receive_handle_delivery_content(u, ev)
    \/ \E u \in Users, ev \in Events : Receive_unhandled(u, ev)
    \/ \E k \in Running, p \in Profiles : Upsert(k, p)
    \/ \E k \in Running, r \in SendResults : Answer_on_start(k, r)
    \/ \E k \in Running, r \in SendResults : EditText_on_get_access(k, r)
    \/ \E k \in Running, r \in SendResults : Answer_on_get_access(k, r)
    \/ \E k \in Running, o \in QueryOutcomes : GetChatMember(k, o)
    \/ \E k \in Running, r \in SendResults : EditText_on_check_sub(k, r)
    \/ \E k \in Running, r \in SendResults : Answer_on_check_sub(k, r)
    \/ \E k \in Running, r \in SendResults : Reply_cmd_delivery_start(k, r)
    \/ \E k \in Running, ids \in get_all_user_ids(store) : Select(k, ids)
    \/ \E k \in Running, r \in SendResults : CopyMessage(k, r)
    \/ \E k \in Running, r \in SendResults : ReplyEmpty(k, r)
    \/ \E k \in Running, r \in SendResults : ReplyDone(k, r)

Spec == Init /\ [][Next]_vars

\* ---------- the administrator alone ----------
\* runs in which the only updates are /delivery commands and photos of the
\* administrator; with the other senders left out the runs can be longer
AdminRoom == BagCardinality(tasks) < MaxTasks /\ now < MaxAdminClock

AdminNext ==
    \/ \E ev \in Events :
          ev.data = "/delivery" /\ AdminRoom /\ Start_cmd_delivery_start(ADMIN_ID, ev)
    \/ \E ev \in Events :
          ev.data = "photo" /\ AdminRoom /\ Start_handle_delivery_content(ADMIN_ID, ev)
    \/ \E k \in Running, r \in SendResults : Reply_cmd_delivery_start(k, r)
    \/ \E k \in Running, ids \in get_all_user_ids(store) : Select(k, ids)
    \/ \E k \in Running, r \in SendResults : CopyMessage(k, r)
    \/ \E k \in Running, r \in SendResults : ReplyEmpty(k, r)
    \/ \E k \in Running, r \in SendResults : ReplyDone(k, r)

AdminSpec == Init /\ [][AdminNext]_vars

\* ---------- scheduling ----------
FlowHandlers == {"on_start", "on_get_access", "on_check_sub"}

\* the next step of invocation k of on_start, on_get_access or on_check_sub
FlowStep(k) ==
    \/ \E p \in Profiles : Upsert(k, p)
    \/ \E r \in SendResults : Answer_on_start(k, r)
    \/ \E r \in SendResults : EditText_on_get_access(k, r)
    \/ \E r \in SendResults : Answer_on_get_access(k, r)
    \/ \E o \in QueryOutcomes : GetChatMember(k, o)
    \/ \E r \in SendResults : EditText_on_check_sub(k, r)
    \/ \E r \in SendResults : Answer_on_check_sub(k, r)

\* the next step of invocation k of handle_delivery_content
BroadcastStep(k) ==
    \/ \E ids \in get_all_user_ids(store) : Select(k, ids)
    \/ \E r \in SendResults : CopyMessage(k, r)
    \/ \E r \in SendResults : ReplyEmpty(k, r)
    \/ \E r \in SendResults : ReplyDone(k, r)

\* the process keeps running: the event loop resumes the broadcast and each
\* call it awaits completes (it returns or raises)
BroadcastFair ==
    Spec /\ WF_vars(\E k \in Running : BroadcastStep(k))

\* the event loop resumes a task whose await has completed, and the calls
\* the three user handlers await complete (they return or raise); nothing
\* is assumed of the calls of a broadcast
FlowFair ==
    Spec /\ WF_vars(\E k \in Running : k.h \in FlowHandlers /\ FlowStep(k))

TypeOK ==
    /\ now \in 0..MaxClock
    /\ BagCardinality(tasks) <= MaxTasks
    /\ \A u \in Users : fsm[u] \in {NoState, waiting_for_content}


(***************************************************************************)
(* Properties                                                              *)
(***************************************************************************)
SubscribedStatuses == {"member", "administrator", "creator"}
IsBroadcast(k) == k.h = "handle_delivery_content"
\* the step is one of invocation k
Stepped(k) == CopiesIn(k, tasks') < CopiesIn(k, tasks)

\* C1: the private invite link is emitted only by the edit_text of an
\* on_check_sub invocation whose membership query, made for the user the
\* link goes to, returned member, administrator or creator; no query error
\* and no other call of any handler emits it.
C1_LinkOnlyWhenSubscribed ==
    \A k \in Running :
       PlatformCall(k).text = PRIVATE_CHAT_LINK =>
          /\ k.h = "on_check_sub"
          /\ PlatformCall(k).api = "edit_text"
          /\ PlatformCall(k).chat = k.user
          /\ k.is_member

C1_Witness ==
    \E k \in Running :
       /\ PlatformCall(k).text = PRIVATE_CHAT_LINK
       /\ PlatformCall(k).chat = OtherUser
       /\ \E r \in store : r.user_id = OtherUser /\ r.joined_at = 0 /\ r.first_name # "Zoe"

\* C2: is_subscribed returns subscribed exactly when the query returned
\* normally with status member, administrator or creator; left, kicked,
\* restricted, a missing status and every raised query error give
\* not-subscribed (on_check_sub then takes the alert branch).
C2_FailClosed ==
    [][ \A k \in Running, o \in QueryOutcomes :
          GetChatMember(k, o) =>
             LET granted == o.raised = "none" /\ o.status \in SubscribedStatuses
             IN tasks' = Becomes(k,
                   [k EXCEPT !.pc = IF granted THEN "upsert_user" ELSE "answer",
                             !.is_member = granted]) ]_vars

C2_Witness ==
    \E k \in Running :
       /\ At(k, "on_check_sub", "answer")
       /\ ~k.is_member
       /\ PlatformCall(k).text = "alert"

\* C3: no identity but the administrator is ever in waiting_for_content; a
\* /delivery command of another identity changes no FSM state and no row and
\* is answered with the permission-denied reply.
C3_OnlyAdminAwaits ==
    /\ [](\A u \in Users : fsm[u] = waiting_for_content => u = ADMIN_ID)
    /\ [][ \A u \in Users \ {ADMIN_ID}, ev \in Events :
             Receive_cmd_delivery_start(u, ev) =>
                /\ fsm' = fsm
                /\ store' = store
                /\ tasks' = Started(Task("cmd_delivery_start", "reply_denied", u)) ]_vars
    /\ [](\A k \in Running :
             k.h = "cmd_delivery_start" =>
                /\ PlatformCall(k).api = "reply"
                /\ PlatformCall(k).chat = k.user
                /\ PlatformCall(k).text = IF k.user = ADMIN_ID THEN "mode" ELSE "denied")

C3_Witness ==
    /\ \A u \in Users : fsm[u] = NoState
    /\ \E k \in Running :
          /\ k.user = OtherUser
          /\ PlatformCall(k).text = "denied"

\* the ids a broadcast has attempted so far, in order, and its failures
AttemptedIds(k) == [j \in 1..Len(k.attempted) |-> k.attempted[j].uid]
Failures(k) == Cardinality({ j \in 1..Len(k.attempted) : k.attempted[j].result # "ok" })
NoRepeat(ids) == \A a, b \in 1..Len(ids) : ids[a] = ids[b] => a = b

\* C4: the summary of a broadcast over a snapshot of N ids of which K
\* attempts failed says sent = N-K and failed = K, and by then every id of
\* the snapshot has been attempted exactly once, wherever the failures are;
\* during the loop the ids attempted are the first ids of the snapshot.
C4_SummaryCounts ==
    \A k \in Running :
       /\ At(k, "handle_delivery_content", "reply_done") =>
             /\ PlatformCall(k).text = "summary"
             /\ PlatformCall(k).chat = k.user
             /\ PlatformCall(k).sent = Len(k.user_ids) - Failures(k)
             /\ PlatformCall(k).failed = Failures(k)
             /\ AttemptedIds(k) = k.user_ids
             /\ NoRepeat(k.user_ids)
       /\ At(k, "handle_delivery_content", "copy_message") =>
             /\ Len(k.attempted) < Len(k.user_ids)
             /\ AttemptedIds(k) = SubSeq(k.user_ids, 1, Len(k.attempted))

C4_Witness ==
    \E k \in Running :
       /\ PlatformCall(k).text = "summary"
       /\ PlatformCall(k).sent = 1
       /\ PlatformCall(k).failed = 1
       /\ k.attempted[1].result # "ok"

\* a broadcast that has read an empty list
ReadNothing(k) ==
    IsBroadcast(k) /\ k.pc # "get_all_user_ids" /\ k.user_ids = <<>>

\* C5 as the specification states it: a broadcast that reads zero ids
\* replies with a summary of sent 0 and failed 0.
C5_EmptySummary ==
    \A k \in Running :
       ReadNothing(k) =>
          /\ PlatformCall(k).text = "summary"
          /\ PlatformCall(k).sent = 0
          /\ PlatformCall(k).failed = 0

\* C5, amended: a broadcast that reads zero ids makes no delivery call and
\* replies with the notice that the list is empty, which carries no counters,
\* and ends with that reply.
C5_EmptyNotice ==
    /\ [][ \A k \in Running :
             (At(k, "handle_delivery_content", "get_all_user_ids")
                 /\ Stepped(k) /\ store = {}) =>
                tasks' = Becomes(k, [k EXCEPT !.i = 1, !.pc = "reply_empty"]) ]_vars
    /\ [](\A k \in Running :
             ReadNothing(k) =>
                /\ k.attempted = <<>>
                /\ PlatformCall(k) = Call("reply", k.user, "empty"))
    /\ [][ \A k \in Running :
             (ReadNothing(k) /\ Stepped(k)) => tasks' = Without(k) ]_vars

C5_Witness ==
    /\ store = {}
    /\ \E k \in Running : ReadNothing(k) /\ PlatformCall(k).text = "empty"

\* what `x or ""` stores for a display field
Shown(x) == IF x = None THEN "" ELSE x

\* C6: the store never holds two rows with one user_id, only an upsert
\* changes it, and a committed upsert leaves for its id one row with the
\* first_name and username of that upsert and every other row as it was.
C6_OneRowLatestFields ==
    /\ [](\A r1, r2 \in store : r1.user_id = r2.user_id => r1 = r2)
    /\ [][ \A k \in Running, p \in Profiles :
             Upsert(k, p) =>
                LET mine == { r \in store' : r.user_id = k.user }
                IN /\ Cardinality(mine) = 1
                   /\ \A r \in mine : /\ r.first_name = Shown(p.first_name)
                                      /\ r.username = Shown(p.username)
                   /\ store' \ mine = { r \in store : r.user_id # k.user } ]_vars
    /\ [][ store' # store => \E k \in Running, p \in Profiles : Upsert(k, p) ]_vars

C6_Witness ==
    /\ \E r \in store : r.user_id = OtherUser /\ r.joined_at = 0 /\ r.first_name = ""
    /\ \E r \in store : r.user_id = ADMIN_ID /\ r.first_name = "Ann"
    /\ \E k \in Running : k.pc = "upsert_user" /\ k.user = ADMIN_ID

\* the update ev of identity u is received by this step
Receive(u, ev) ==
    /\ now' # now
    /\ \/ Receive_on_start(u, ev)
       \/ Receive_on_get_access(u, ev)
       \/ Receive_on_check_sub(u, ev)
       \/ Receive_cmd_delivery_start(u, ev)
       \/ Receive_handle_delivery_content(u, ev)
       \/ Receive_unhandled(u, ev)

Captured(u, ev) ==
    [Task("handle_delivery_content", "get_all_user_ids", u) EXCEPT !.payload = ev.data]

MessageEvents == { ev \in Events : ev.type = "message" }
Commands == {"/start", "/delivery"}

\* C7 as the specification states it: while the administrator is in
\* waiting_for_content, the next message of the administrator, a /start or
\* /delivery command included, is captured as the payload and the state
\* returns to None.
C7_AnyMessageCaptured ==
    [][ \A ev \in MessageEvents :
          (fsm[ADMIN_ID] = waiting_for_content /\ Receive(ADMIN_ID, ev)) =>
             /\ fsm'[ADMIN_ID] = NoState
             /\ tasks' = Started(Captured(ADMIN_ID, ev)) ]_vars

\* C7, amended: while the administrator is in waiting_for_content, the next
\* message of the administrator that is not a /start or /delivery command
\* is captured as the payload and the state returns to None with that one
\* message; a /start or /delivery command goes to its own handler, is not
\* captured and leaves the state waiting_for_content; and no message is
\* captured while the state is None.
C7_NextOtherMessageCaptured ==
    /\ [][ \A ev \in MessageEvents :
             (fsm[ADMIN_ID] = waiting_for_content /\ Receive(ADMIN_ID, ev)) =>
                IF ev.data \in Commands
                THEN /\ fsm'[ADMIN_ID] = waiting_for_content
                     /\ tasks' = Started(
                           IF ev.data = "/start"
                           THEN Task("on_start", "upsert_user", ADMIN_ID)
                           ELSE Task("cmd_delivery_start", "reply_mode", ADMIN_ID))
                ELSE /\ fsm'[ADMIN_ID] = NoState
                     /\ tasks' = Started(Captured(ADMIN_ID, ev)) ]_vars
    /\ [][ \A u \in Users, ev \in Events :
             (fsm[u] = NoState /\ Receive(u, ev)) =>
                \A k \in BagToSet(tasks') :
                   IsBroadcast(k) => CopiesIn(k, tasks') = CopiesIn(k, tasks) ]_vars

C7_Witness ==
    /\ fsm[ADMIN_ID] = NoState
    /\ \E k \in Running :
          /\ At(k, "handle_delivery_content", "get_all_user_ids")
          /\ k.payload = "/help"

\* C8 as the specification states it: no handler invocation ends with an
\* exception of a platform call.
C8_NoHandlerRaises == exit # Raised

\* C9: the step that starts handle_delivery_content leaves the sender's state
\* None, before the recipients are read and before any copy; no later step of
\* a broadcast touches the FSM; and the state becomes waiting_for_content
\* again only when a /delivery command is received.  So whenever a broadcast
\* reads, copies or is cut short, the administrator does not await content
\* on account of it.
C9_ClearedBeforeDelivery ==
    /\ [][ \A u \in Users, ev \in Events :
             Receive_handle_delivery_content(u, ev) => fsm'[u] = NoState ]_vars
    /\ [][ \A k \in Running : (IsBroadcast(k) /\ Stepped(k)) => fsm' = fsm ]_vars
    /\ [][ \A u \in Users :
             (fsm[u] = NoState /\ fsm'[u] = waiting_for_content) =>
                \E ev \in Events :
                   ev.data = "/delivery" /\ Receive_cmd_delivery_start(u, ev) ]_vars

C9_Witness ==
    /\ fsm[ADMIN_ID] = NoState
    /\ \E k \in Running : At(k, "handle_delivery_content", "copy_message") /\ k.i = 2

Range(f) == { f[j] : j \in DOMAIN f }
StoredIds == { r.user_id : r \in store }

\* C10: the recipients of a broadcast are the ids in the store at its one
\* read: the read takes one id per stored row, no later step changes the
\* list, each copy goes to the next id of the list, and when the loop ends
\* the ids attempted are the list; an id stored after the read is not
\* attempted.
C10_SnapshotAtRead ==
    /\ [][ \A k \in Running :
             (At(k, "handle_delivery_content", "get_all_user_ids") /\ Stepped(k)) =>
                \E k2 \in BagToSet(tasks') :
                   /\ tasks' = Becomes(k, k2)
                   /\ Range(k2.user_ids) = StoredIds
                   /\ Len(k2.user_ids) = Cardinality(store)
                   /\ k2.attempted = <<>> ]_vars
    /\ [][ \A k \in Running :
             (IsBroadcast(k) /\ k.pc # "get_all_user_ids" /\ Stepped(k)) =>
                \/ tasks' = Without(k)
                \/ \E k2 \in BagToSet(tasks') :
                      /\ tasks' = Becomes(k, k2)
                      /\ k2.user_ids = k.user_ids
                      /\ k2.payload = k.payload
                      /\ Len(k2.attempted) = Len(k.attempted) + 1
                      /\ k2.attempted[Len(k2.attempted)].uid = PlatformCall(k).chat ]_vars
    /\ [](\A k \in Running :
             /\ At(k, "handle_delivery_content", "copy_message") =>
                   /\ PlatformCall(k).chat = k.user_ids[Len(k.attempted) + 1]
                   /\ PlatformCall(k).payload = k.payload
             /\ At(k, "handle_delivery_content", "reply_done") =>
                   AttemptedIds(k) = k.user_ids)

C10_Witness ==
    \E k \in Running :
       /\ At(k, "handle_delivery_content", "reply_done")
       /\ k.user_ids = <<OtherUser>>
       /\ ADMIN_ID \in StoredIds

\* C11: a check_sub press that the checker denies changes no row and no FSM
\* state and leaves every other invocation as it is; the only call it makes
\* after the query is the alert of callback.answer, never an edit_text, and
\* it ends with that call; and every press, whatever went before, starts an
\* invocation that makes its own membership query.
C11_DeniedPressNoEffect ==
    /\ [][ \A k \in Running, o \in QueryOutcomes :
             (GetChatMember(k, o) /\ ~Reported(o)) =>
                /\ store' = store
                /\ fsm' = fsm
                /\ tasks' = Becomes(k, [k EXCEPT !.pc = "answer"]) ]_vars
    /\ [](\A k \in Running :
             (k.h = "on_check_sub" /\ k.pc # "get_chat_member" /\ ~k.is_member) =>
                PlatformCall(k) = Call("callback_answer", k.user, "alert"))
    /\ [][ \A k \in Running :
             (k.h = "on_check_sub" /\ k.pc = "answer" /\ Stepped(k)) =>
                /\ store' = store
                /\ fsm' = fsm
                /\ tasks' = Without(k) ]_vars
    /\ [](\A u \in Users :
             Route([type |-> "callback_query", data |-> "check_sub"], fsm[u])
                = "on_check_sub")
    /\ [][ \A u \in Users, ev \in Events :
             Receive_on_check_sub(u, ev) =>
                tasks' = Started(Task("on_check_sub", "get_chat_member", u)) ]_vars

\* two presses of one user in flight, one denied and one granted
C11_Witness ==
    \E k1, k2 \in Running :
       /\ k1.user = OtherUser /\ k2.user = OtherUser
       /\ At(k1, "on_check_sub", "answer") /\ ~k1.is_member
       /\ At(k2, "on_check_sub", "edit_text") /\ k2.is_member

\* C12: in every state the program reaches, whatever updates came before and
\* whether or not the user has a row, a check_sub press is routed to
\* on_check_sub and its course is fixed by the membership query alone: on a
\* subscribed status it upserts the row of the presser and then edits the
\* message to the invite link for that user; otherwise its next call is the
\* alert.
C12_PressDecidedByCheckAlone ==
    /\ [][ \A u \in Users, ev \in Events :
             (ev.data = "check_sub" /\ Receive(u, ev)) =>
                Receive_on_check_sub(u, ev) ]_vars
    /\ [][ \A k \in Running, o \in QueryOutcomes :
             GetChatMember(k, o) =>
                \E k2 \in BagToSet(tasks') :
                   /\ tasks' = Becomes(k, k2)
                   /\ k2.pc = IF Reported(o) THEN "upsert_user" ELSE "answer" ]_vars
    /\ [][ \A k \in Running, p \in Profiles :
             (k.h = "on_check_sub" /\ Upsert(k, p)) =>
                /\ \E r \in store' : /\ r.user_id = k.user
                                     /\ r.first_name = Shown(p.first_name)
                                     /\ r.username = Shown(p.username)
                /\ tasks' = Becomes(k, [k EXCEPT !.pc = "edit_text"]) ]_vars
    /\ [](\A k \in Running :
             k.h = "on_check_sub" =>
                /\ k.pc = "edit_text" =>
                      PlatformCall(k) = Call("edit_text", k.user, PRIVATE_CHAT_LINK)
                /\ k.pc = "answer" =>
                      PlatformCall(k) = Call("callback_answer", k.user, "alert"))

\* the first update of a run with an empty store is a press of a subscribed
\* user: the row is written and the link is the call to come
C12_Witness ==
    /\ now = 1
    /\ \E k \in Running :
          /\ PlatformCall(k) = Call("edit_text", OtherUser, PRIVATE_CHAT_LINK)
          /\ store = { [user_id |-> OtherUser, first_name |-> "",
                        username |-> "", joined_at |-> 1] }

\* a broadcast inside its delivery loop
InDelivery(k) == At(k, "handle_delivery_content", "copy_message")
FlowEvents ==
    { ev \in Events : Route(ev, NoState) \in FlowHandlers }
FlowPending == \E k \in Running : k.h \in FlowHandlers

\* C13: while a broadcast is inside its delivery loop, whichever attempt it
\* is at, (a) the dispatcher takes a /start, get_access or check_sub update
\* of the other user (as far as the bounds of the model leave room), (b) the
\* next step of every invocation of these handlers can be taken, and (c)
\* every such invocation ends, even in the runs in which the broadcast
\* makes no further step and so never reports its summary.
C13_DeliveryBlocksNoFlow ==
    /\ [](\A b \in Running :
             (InDelivery(b) /\ BagCardinality(tasks) < MaxTasks /\ now < MaxClock) =>
                \A ev \in FlowEvents :
                   ENABLED (\/ Receive_on_start(OtherUser, ev)
                            \/ Receive_on_get_access(OtherUser, ev)
                            \/ Receive_on_check_sub(OtherUser, ev)))
    /\ [](\A b \in Running :
             InDelivery(b) =>
                \A k \in Running : k.h \in FlowHandlers => ENABLED FlowStep(k))
    /\ (FlowPending ~> ~FlowPending)

\* a broadcast over two ids has made its first attempt and not its second,
\* and on_start of the other user has written its row and is about to answer
C13_Witness ==
    \E b, k \in Running :
       /\ b.user = ADMIN_ID
       /\ InDelivery(b) /\ b.i = 2 /\ Len(b.attempted) = 1
       /\ At(k, "on_start", "answer") /\ k.user = OtherUser
       /\ \E r \in store : r.user_id = OtherUser /\ r.first_name = "Ann"

\* a broadcast that has read a non-empty list and has not yet made the
\* call that reports its summary
SummaryDue ==
    \E k \in Running : IsBroadcast(k) /\ k.pc \in {"copy_message", "reply_done"}

\* C14: if the process keeps running, a broadcast that has entered its loop
\* ends the loop and makes the call that reports the summary, whatever the
\* size of the list and whichever of the copies fail: every step of the loop,
\* failed or not, moves on to the next id and leaves the loop only for the
\* summary, and when the summary is due sent + failed is the size of the
\* list.
C14_DeliveryCompletes ==
    /\ [][ \A k \in Running :
             (InDelivery(k) /\ Stepped(k)) =>
                \E k2 \in BagToSet(tasks') :
                   /\ tasks' = Becomes(k, k2)
                   /\ k2.i = k.i + 1
                   /\ k2.sent + k2.failed = k.sent + k.failed + 1
                   /\ k2.pc = IF k.i = Len(k.user_ids)
                              THEN "reply_done" ELSE "copy_message" ]_vars
    /\ [](\A k \in Running :
             At(k, "handle_delivery_content", "reply_done") =>
                /\ k.sent + k.failed = Len(k.user_ids)
                /\ PlatformCall(k).api = "reply"
                /\ PlatformCall(k).chat = ADMIN_ID
                /\ PlatformCall(k).sent + PlatformCall(k).failed = Len(k.user_ids))
    /\ (SummaryDue ~> ~SummaryDue)

\* both copies of a broadcast over two ids have failed and the summary is
\* the call to come
C14_Witness ==
    \E k \in Running :
       /\ At(k, "handle_delivery_content", "reply_done")
       /\ Len(k.user_ids) = 2
       /\ k.failed = 2
       /\ PlatformCall(k).text = "summary"

\* C15: no step removes a row or changes the user_id or the joined_at of a
\* row: every id stored before a step is stored after it with the joined_at
\* it had, and a row that a step creates carries the time of that step.  An
\* upsert of a stored id therefore changes first_name and username at most.
C15_RowsKeptJoinedAtFixed ==
    /\ [][ \A r \in store :
             \E r2 \in store' : /\ r2.user_id = r.user_id
                                /\ r2.joined_at = r.joined_at ]_vars
    /\ [][ \A r2 \in store' :
             (r2.user_id \notin StoredIds) => r2.joined_at = now ]_vars
    /\ [][ Cardinality(store') >= Cardinality(store) ]_vars

\* a row found at startup has been rewritten by an upsert and keeps its
\* joined_at, next to a row created during the run
C15_Witness ==
    /\ [user_id |-> OtherUser, first_name |-> "Ann", username |-> "ann",
        joined_at |-> 0] \in store
    /\ \E r \in store : r.user_id = ADMIN_ID /\ r.joined_at > 0

PlainMessages == { ev \in MessageEvents : ev.data \notin Commands }

\* C16 as the specification states it: every update received starts an
\* invocation of exactly one of the registered handlers.
C16_ExactlyOneHandler ==
    [][ \A u \in Users, ev \in Events :
          Receive(u, ev) =>
             \E k \in BagToSet(tasks') :
                /\ k.h \in Handlers
                /\ tasks' = Started(k) ]_vars

\* C16, amended: an update received starts an invocation of at most one
\* handler, the first registered one whose filter matches, for the sender of
\* the update; an update that matches none starts nothing.  A message that
\* is not a /start or /delivery command starts a broadcast if its sender is
\* in waiting_for_content at that moment, and otherwise, the administrator
\* included, it starts no invocation (so no delivery and no reply) and
\* changes no FSM state and no row.
C16_AtMostOneHandler ==
    /\ [][ \A u \in Users, ev \in Events :
             Receive(u, ev) =>
                IF Route(ev, fsm[u]) = "unhandled"
                THEN tasks' = tasks
                ELSE \E k \in BagToSet(tasks') :
                        /\ k.h = Route(ev, fsm[u])
                        /\ k.user = u
                        /\ tasks' = Started(k) ]_vars
    /\ [][ \A u \in Users, ev \in PlainMessages :
             Receive(u, ev) =>
                IF fsm[u] = waiting_for_content
                THEN tasks' = Started(Captured(u, ev))
                ELSE /\ tasks' = tasks
                     /\ fsm' = fsm
                     /\ store' = store
                     /\ exit' = NoExit ]_vars

\* the one update received so far started no invocation
C16_Witness ==
    /\ now = 1
    /\ tasks = EmptyBag
    /\ exit = NoExit
    /\ \A u \in Users : fsm[u] = NoState

\* the copies of a broadcast that returned
Successes(k) ==
    Cardinality({ j \in 1..Len(k.attempted) : k.attempted[j].result = "ok" })

\* C17: the administrator can start a broadcast while another is in flight,
\* each after a /delivery command of its own, since the capture of a payload
\* leaves the state None; a step of one broadcast changes nothing of any
\* other invocation; and each broadcast counts its own attempts only: its
\* counters are the successes and failures among the copies it has made
\* itself, these copies are the first ids of its own list, each once, and
\* its summary reports these counters.
C17_BroadcastsIndependent ==
    /\ [][ \A ev \in Events :
             Start_handle_delivery_content(ADMIN_ID, ev) =>
                /\ fsm[ADMIN_ID] = waiting_for_content
                /\ fsm'[ADMIN_ID] = NoState
                /\ tasks' = Started(Captured(ADMIN_ID, ev)) ]_vars
    /\ [][ \A k \in Running :
             (IsBroadcast(k) /\ Stepped(k)) =>
                \/ tasks' = Without(k)
                \/ \E k2 \in BagToSet(tasks') :
                      /\ tasks' = Becomes(k, k2)
                      /\ k2.user_ids = IF k.pc = "get_all_user_ids"
                                       THEN k2.user_ids ELSE k.user_ids ]_vars
    /\ [](\A k \in Running :
             IsBroadcast(k) =>
                /\ k.sent = Successes(k)
                /\ k.failed = Failures(k)
                /\ AttemptedIds(k) = SubSeq(k.user_ids, 1, Len(k.attempted))
                /\ NoRepeat(k.user_ids)
                /\ k.pc = "reply_done" =>
                      /\ Len(k.attempted) = Len(k.user_ids)
                      /\ PlatformCall(k).sent = Successes(k)
                      /\ PlatformCall(k).failed = Failures(k))

\* two broadcasts in flight over lists in different orders: the first has
\* attempted both ids and counts two sent, the second has failed at its
\* first id and has its second to come
C17_Witness ==
    \E b1, b2 \in Running :
       /\ At(b1, "handle_delivery_content", "reply_done")
       /\ b1.user_ids = <<ADMIN_ID, OtherUser>>
       /\ b1.sent = 2 /\ b1.failed = 0
       /\ InDelivery(b2)
       /\ b2.user_ids = <<OtherUser, ADMIN_ID>>
       /\ b2.sent = 0 /\ b2.failed = 1

====
